---- MODULE Spec2Model ----
(***************************************************************************)
(* Lyra Chat: the streaming normalizer (AIService.streamResponse with its  *)
(* two adapters) and the session-update protocol of App.handleSendMessage. *)
(*                                                                         *)
(* Two specifications share the module:                                    *)
(*   SpecStream  one call of AIService.streamResponse, for every provider, *)
(*               credential state, adapter outcome and cutting of the REST *)
(*               response body into reads;                                 *)
(*   Spec        the App component: user events, turns in flight and the   *)
(*               callbacks of each turn, interleaved.                      *)
(* Texts are sequences of one-character strings, so that split, trim,      *)
(* includes, startsWith, slice and concatenation are computed as the code  *)
(* computes them.                                                          *)
(***************************************************************************)
EXTENDS Integers, Sequences, FiniteSets, TLC

VARIABLES
    \* ---- App state (src/App.tsx) ----
    sessions,          \* useState<ChatSession[]>: the latest state of the list
    currentSessionId,  \* useState<string | null>
    settings,          \* useState<AppSettings>: activeModel and apiKeys
    isLoading,         \* useState(false): the awaiting-response flag
    now,               \* the least value Date.now() has at the next user event
    turns,             \* one record per handleSendMessage call that reached streamResponse
    edits,             \* settings edits made so far
    last,              \* history: the turn whose callback produced this state while
                       \* its session was not the selected one, 0 otherwise
    request,           \* history: the last send request the user made
    \* ---- one call of AIService.streamResponse (src/unnamed/part_002) ----
    spc,               \* where the call is
    wire,              \* REST: the part of the response body not yet read
    deltas,            \* REST: what the frames of the body were built from, a delta
                       \* text or a damaged payload each
    withDone,          \* REST: the body ends with the data: [DONE] line
    fullText,          \* the adapter's accumulator
    calls,             \* the callbacks invoked so far, in order
    netReq,            \* network requests issued so far
    adapter,           \* which adapter streamResponse invoked
    gemCount           \* SDK chunks the Gemini stream has yielded so far

appVars == <<sessions, currentSessionId, isLoading, now, turns, edits, last, request>>
streamVars == <<spc, wire, deltas, withDone, fullText, calls, netReq, adapter, gemCount>>
vars == <<sessions, currentSessionId, settings, isLoading, now, turns, edits, last, request,
          spc, wire, deltas, withDone, fullText, calls, netReq, adapter, gemCount>>

----------------------------------------------------------------------------
(* Bounds of the model *)

MaxFrames == 2      \* frames in a REST response body
MaxGemChunks == 2   \* chunks an SDK stream yields

----------------------------------------------------------------------------
(* Texts *)

NL == "\n"
Whitespace == {" ", "\n", "\t", "\r"}

RECURSIVE Concat(_)
Concat(ss) == IF ss = <<>> THEN <<>> ELSE Head(ss) \o Concat(Tail(ss))

\* String.prototype.startsWith
StartsWith(s, pat) == Len(s) >= Len(pat) /\ SubSeq(s, 1, Len(pat)) = pat

\* String.prototype.includes
Includes(s, pat) ==
    \E i \in 1..(Len(s) - Len(pat) + 1) : SubSeq(s, i, i + Len(pat) - 1) = pat

\* String.prototype.slice(n)
Slice(s, n) == SubSeq(s, n + 1, Len(s))

\* String.prototype.trim() !== ''
TrimNonEmpty(s) == \E i \in 1..Len(s) : s[i] \notin Whitespace

\* String.prototype.split(sep) for a one-character separator
RECURSIVE Split(_, _)
Split(s, sep) ==
    IF \A i \in 1..Len(s) : s[i] # sep THEN <<s>>
    ELSE LET i == CHOOSE j \in 1..Len(s) : s[j] = sep /\ \A k \in 1..(j - 1) : s[k] # sep
         IN  <<SubSeq(s, 1, i - 1)>> \o Split(SubSeq(s, i + 1, Len(s)), sep)

\* All sequences over S of length at most n
BoundedSeq(S, n) == UNION {[1..k -> S] : k \in 0..n}

----------------------------------------------------------------------------
(* Providers and credentials: src/unnamed/part_000 *)

ModelProvider == {"Gemini", "OpenAI", "DeepSeek"}

\* apiKeys[provider]: not set, the empty string, or a key
Undefined == <<"undefined">>
KeyValues == {Undefined, <<>>, <<"s","k">>}

DEFAULT_SETTINGS ==
    [activeModel |-> "Gemini", apiKeys |-> [p \in ModelProvider |-> Undefined]]

\* !apiKey
Falsy(v) == v = Undefined \/ v = <<>>

----------------------------------------------------------------------------
(* The REST wire format and the adapter's line parser *)

DataPrefix == <<"d","a","t","a",":"," ">>
DoneMarker == <<"[","D","O","N","E","]">>
JsonHead == <<"{","\"","c","h","o","i","c","e","s","\"",":","[","{","\"","d","e","l","t","a","\"",":","{","\"","c","o","n","t","e","n","t","\"",":","\"">>
JsonTail == <<"\"","}","}","]","}">>

\* the delta texts a frame may carry; the last one is a reply that quotes the
\* end marker
Deltas == {<<"H","i">>, <<"a">>, <<"[","D","O","N","E","]">>}

\* payloads that are no frame of the wire contract: JSON that breaks off, and
\* JSON whose delta has no content
BadPayloads ==
    {<<"{","\"","c","h","o">>,
     <<"{","\"","c","h","o","i","c","e","s","\"",":","[","{","\"","d","e","l","t","a","\"",":","{","}","}","]","}">>}

FrameLine(c) ==
    DataPrefix \o (IF c \in BadPayloads THEN c ELSE JsonHead \o c \o JsonTail) \o <<NL>>
DoneLine == DataPrefix \o DoneMarker \o <<NL>>

RECURSIVE FrameLines(_)
FrameLines(cs) == IF cs = <<>> THEN <<>> ELSE FrameLine(Head(cs)) \o FrameLines(Tail(cs))

Body(cs, done) == FrameLines(cs) \o (IF done THEN DoneLine ELSE <<>>)

\* JSON.parse(payload).choices[0]?.delta?.content || '' inside the try of
\* lines 202-211: the delta text of a payload of the wire contract's shape, and
\* '' for every other payload (JSON.parse or the property access throws and the
\* catch skips the line, or the frame carries no delta text).
DeltaContent(payload) ==
    LET n == Len(payload)
        h == Len(JsonHead)
        t == Len(JsonTail)
        inner == SubSeq(payload, h + 1, n - t)
    IN  IF /\ n >= h + t
           /\ SubSeq(payload, 1, h) = JsonHead
           /\ SubSeq(payload, n - t + 1, n) = JsonTail
           /\ \A i \in 1..Len(inner) : inner[i] \notin {"\"", "\\", NL}
        THEN inner
        ELSE <<>>

\* chunk.split('\n').filter(line => line.trim() !== '')
ChunkLines(chunk) == SelectSeq(Split(chunk, NL), TrimNonEmpty)

OnChunkCall(text) == [cb |-> "onChunk", arg |-> text]
OnCompleteCall(text) == [cb |-> "onComplete", arg |-> text]
OnErrorCall(msg) == [cb |-> "onError", arg |-> msg]

\* A [DONE] line that reports completion and goes on with the next line
RECURSIVE ProcessLines_NoReturn(_, _, _)
ProcessLines_NoReturn(lines, text, out) ==
    IF lines = <<>> THEN [fullText |-> text, out |-> out, returned |-> FALSE]
    ELSE LET line == Head(lines)
             content == DeltaContent(Slice(line, 6))
         IN  IF Includes(line, DoneMarker)
             THEN ProcessLines_NoReturn(Tail(lines), text, Append(out, OnCompleteCall(text)))
             ELSE IF StartsWith(line, DataPrefix) /\ content # <<>>
             THEN ProcessLines_NoReturn(Tail(lines), text \o content,
                                        Append(out, OnChunkCall(content)))
             ELSE ProcessLines_NoReturn(Tail(lines), text, out)

\* A delta text that is forwarded and not added to the accumulator
RECURSIVE ProcessLines_NoAccumulate(_, _, _)
ProcessLines_NoAccumulate(lines, text, out) ==
    IF lines = <<>> THEN [fullText |-> text, out |-> out, returned |-> FALSE]
    ELSE LET line == Head(lines)
             content == DeltaContent(Slice(line, 6))
         IN  IF Includes(line, DoneMarker)
             THEN [fullText |-> text, out |-> Append(out, OnCompleteCall(text)),
                   returned |-> TRUE]
             ELSE IF StartsWith(line, DataPrefix) /\ content # <<>>
             THEN ProcessLines_NoAccumulate(Tail(lines), text,
                                            Append(out, OnChunkCall(content)))
             ELSE ProcessLines_NoAccumulate(Tail(lines), text, out)

\* A payload that cannot be decoded ends the read loop: the lines behind it
\* are not looked at
RECURSIVE ProcessLines_StopAtBad(_, _, _)
ProcessLines_StopAtBad(lines, text, out) ==
    IF lines = <<>> THEN [fullText |-> text, out |-> out, returned |-> FALSE]
    ELSE LET line == Head(lines)
             content == DeltaContent(Slice(line, 6))
         IN  IF Includes(line, DoneMarker)
             THEN [fullText |-> text, out |-> Append(out, OnCompleteCall(text)),
                   returned |-> TRUE]
             ELSE IF StartsWith(line, DataPrefix) /\ content # <<>>
             THEN ProcessLines_StopAtBad(Tail(lines), text \o content,
                                         Append(out, OnChunkCall(content)))
             ELSE IF StartsWith(line, DataPrefix)
             THEN [fullText |-> text, out |-> out, returned |-> FALSE]
             ELSE ProcessLines_StopAtBad(Tail(lines), text, out)

\* for (const line of lines) { ... }: the callbacks one read produces, the
\* accumulator after it and whether the adapter returned at a [DONE] line
RECURSIVE ProcessLines(_, _, _)
ProcessLines(lines, text, out) ==
    IF lines = <<>> THEN [fullText |-> text, out |-> out, returned |-> FALSE]
    ELSE LET line == Head(lines)
             content == DeltaContent(Slice(line, 6))
         IN  IF Includes(line, DoneMarker)
             THEN [fullText |-> text, out |-> Append(out, OnCompleteCall(text)),
                   returned |-> TRUE]
             ELSE IF StartsWith(line, DataPrefix) /\ content # <<>>
             THEN ProcessLines(Tail(lines), text \o content,
                               Append(out, OnChunkCall(content)))
             ELSE ProcessLines(Tail(lines), text, out)

----------------------------------------------------------------------------
(* One call of AIService.streamResponse *)

\* err.message of the errors the call reports
MissingKeyMessage(m) ==
    <<"P","l","e","a","s","e"," ","p","r","o","v","i","d","e"," ","a","n"," ","A","P","I"," ","k","e","y"," ","f","o","r"," ">>
    \o (CASE m = "Gemini" -> <<"G","e","m","i","n","i">>
          [] m = "OpenAI" -> <<"O","p","e","n","A","I">>
          [] OTHER -> <<"D","e","e","p","S","e","e","k">>)
    \o <<" ","i","n"," ","S","e","t","t","i","n","g","s",".">>
NoBodyMessage == <<"N","o"," ","r","e","s","p","o","n","s","e"," ","b","o","d","y">>
ApiErrorMessage == <<"A","P","I"," ","E","r","r","o","r"," ","5","0","0",":"," ">>
NetworkMessage == <<"F","a","i","l","e","d"," ","t","o"," ","f","e","t","c","h">>

\* the texts an SDK chunk may carry; <<>> is a chunk without text
GemTexts == {<<>>, <<"a">>, <<"b">>}

\* the provider needs no key from settings.apiKeys
NeedsNoKey(m) == m = "Gemini"

\* the key check of streamResponse accepts the key
KeyAccepted_Defined(v) == v # Undefined
KeyAccepted(v) == ~Falsy(v)

\* no send request was made yet
NoRequest == [path |-> "none", text |-> <<>>, image |-> FALSE, flip |-> 0]

idleStream ==
    /\ spc = "idle" /\ wire = <<>> /\ deltas = <<>> /\ withDone = FALSE
    /\ fullText = <<>> /\ calls = <<>> /\ netReq = 0 /\ adapter = "none"
    /\ gemCount = 0

idleApp ==
    /\ sessions = <<>> /\ currentSessionId = 0 /\ isLoading = FALSE
    /\ now = 0 /\ turns = <<>> /\ edits = 0 /\ last = 0
    /\ request = NoRequest

InitStream ==
    /\ idleApp
    /\ \E m \in ModelProvider, v \in KeyValues :
          /\ (m = "Gemini" => v = Undefined)
          /\ settings = [activeModel |-> m,
                         apiKeys |-> [p \in ModelProvider |->
                                        IF p = m THEN v ELSE Undefined]]
    /\ spc = "start"
    /\ deltas \in BoundedSeq(Deltas \cup BadPayloads, MaxFrames)
    /\ withDone \in BOOLEAN
    /\ (NeedsNoKey(settings.activeModel) \/ ~KeyAccepted(settings.apiKeys[settings.activeModel]))
          => (deltas = <<>> /\ withDone = FALSE)
    /\ wire = Body(deltas, withDone)
    /\ fullText = <<>> /\ calls = <<>> /\ netReq = 0 /\ adapter = "none"
    /\ gemCount = 0

Report(call) == calls' = Append(calls, call)

\* streamResponse, lines 65-77, up to the first await of the adapter it chose
StreamResponseStart ==
    /\ spc = "start"
    /\ IF NeedsNoKey(settings.activeModel)
       THEN /\ adapter' = "gemini"
            /\ spc' = "gemini_create"
            /\ UNCHANGED <<calls, netReq>>
       ELSE IF ~KeyAccepted(settings.apiKeys[settings.activeModel])
       THEN /\ Report(OnErrorCall(MissingKeyMessage(settings.activeModel)))
            /\ spc' = "done"
            /\ UNCHANGED <<adapter, netReq>>
       ELSE /\ adapter' = "rest"
            /\ netReq' = netReq + 1          \* fetch(...), line 172
            /\ spc' = "rest_fetch"
            /\ UNCHANGED calls
    /\ UNCHANGED <<wire, deltas, withDone, fullText, gemCount, settings>>
    /\ UNCHANGED appVars

\* streamGemini, lines 89-120: the client and the chat are created and the
\* streaming request is sent
GeminiSend ==
    /\ spc = "gemini_create"
    /\ netReq' = netReq + 1
    /\ spc' = "gemini_await"
    /\ UNCHANGED <<wire, deltas, withDone, fullText, calls, adapter, gemCount, settings>>
    /\ UNCHANGED appVars

\* getGeminiClient or ai.chats.create throws: caught at line 78
GeminiCreateThrows ==
    /\ spc = "gemini_create"
    /\ Report(OnErrorCall(NetworkMessage))
    /\ spc' = "done"
    /\ UNCHANGED <<wire, deltas, withDone, fullText, netReq, adapter, gemCount, settings>>
    /\ UNCHANGED appVars

\* await chat.sendMessageStream(...) resolves
GeminiStreamOpens ==
    /\ spc = "gemini_await"
    /\ spc' = "gemini_iter"
    /\ fullText' = <<>>                       \* let fullText = "", line 122
    /\ UNCHANGED <<wire, deltas, withDone, calls, netReq, adapter, gemCount, settings>>
    /\ UNCHANGED appVars

\* for await (const chunk of result), lines 123-129
GeminiChunk(text) ==
    /\ spc = "gemini_iter"
    /\ gemCount < MaxGemChunks
    /\ gemCount' = gemCount + 1
    /\ IF text # <<>>
       THEN fullText' = fullText \o text /\ Report(OnChunkCall(text))
       ELSE UNCHANGED <<fullText, calls>>
    /\ UNCHANGED <<spc, wire, deltas, withDone, netReq, adapter, settings>>
    /\ UNCHANGED appVars

\* the SDK stream ends: callbacks.onComplete(fullText), line 130
GeminiEnd ==
    /\ spc = "gemini_iter"
    /\ Report(OnCompleteCall(fullText))
    /\ spc' = "done"
    /\ UNCHANGED <<wire, deltas, withDone, fullText, netReq, adapter, gemCount, settings>>
    /\ UNCHANGED appVars

\* sendMessageStream rejects or the iteration throws: rethrown at line 133,
\* caught at line 78
GeminiThrows ==
    /\ spc \in {"gemini_await", "gemini_iter"}
    /\ Report(OnErrorCall(NetworkMessage))
    /\ spc' = "done"
    /\ UNCHANGED <<wire, deltas, withDone, fullText, netReq, adapter, gemCount, settings>>
    /\ UNCHANGED appVars

\* await fetch(...) rejects: caught at line 78
RestFetchThrows ==
    /\ spc = "rest_fetch"
    /\ Report(OnErrorCall(NetworkMessage))
    /\ spc' = "done"
    /\ UNCHANGED <<wire, deltas, withDone, fullText, netReq, adapter, gemCount, settings>>
    /\ UNCHANGED appVars

\* the response headers arrive, lines 181-190
RestResponse(ok, hasBody) ==
    /\ spc = "rest_fetch"
    /\ IF ~ok
       THEN Report(OnErrorCall(ApiErrorMessage)) /\ spc' = "done"
       ELSE IF ~hasBody
       THEN Report(OnErrorCall(NoBodyMessage)) /\ spc' = "done"
       ELSE UNCHANGED calls /\ spc' = "rest_read"
    /\ fullText' = <<>>                       \* let fullText = '', line 188
    /\ UNCHANGED <<wire, deltas, withDone, netReq, adapter, gemCount, settings>>
    /\ UNCHANGED appVars

\* one pass of while (true): reader.read() delivers the next k characters of
\* the body, lines 193-213
RestRead(k) ==
    /\ spc = "rest_read"
    /\ k \in 1..Len(wire)
    /\ LET chunk == SubSeq(wire, 1, k)       \* decoder.decode(value), ASCII
           r == ProcessLines(ChunkLines(chunk), fullText, <<>>)
       IN  /\ wire' = SubSeq(wire, k + 1, Len(wire))
           /\ fullText' = r.fullText
           /\ calls' = calls \o r.out
           /\ spc' = IF r.returned THEN "done" ELSE "rest_read"
    /\ UNCHANGED <<deltas, withDone, netReq, adapter, gemCount, settings>>
    /\ UNCHANGED appVars

\* reader.read() reports done: break, then callbacks.onComplete(fullText), line 215
RestEnd ==
    /\ spc = "rest_read"
    /\ wire = <<>>
    /\ Report(OnCompleteCall(fullText))
    /\ spc' = "done"
    /\ UNCHANGED <<wire, deltas, withDone, fullText, netReq, adapter, gemCount, settings>>
    /\ UNCHANGED appVars

\* reader.read() rejects: caught at line 78
RestReadThrows ==
    /\ spc = "rest_read"
    /\ Report(OnErrorCall(NetworkMessage))
    /\ spc' = "done"
    /\ UNCHANGED <<wire, deltas, withDone, fullText, netReq, adapter, gemCount, settings>>
    /\ UNCHANGED appVars

NextStream ==
    \/ StreamResponseStart
    \/ GeminiSend
    \/ GeminiCreateThrows
    \/ GeminiStreamOpens
    \/ \E text \in GemTexts : GeminiChunk(text)
    \/ GeminiEnd
    \/ GeminiThrows
    \/ RestFetchThrows
    \/ \E ok \in BOOLEAN, hasBody \in BOOLEAN : RestResponse(ok, hasBody)
    \/ \E k \in 1..Len(wire) : RestRead(k)
    \/ RestEnd
    \/ RestReadThrows

SpecStream == InitStream /\ [][NextStream]_vars

----------------------------------------------------------------------------
(* The App component: src/App.tsx *)

MaxSessions == 2    \* sessions in the list up to which the + button is used
MaxTurns == 3       \* calls of handleSendMessage
MaxChunks == 2      \* chunks one turn's stream delivers
MaxClock == 6       \* the last value of Date.now()
MaxEdits == 1       \* settings edits
MaxGap == 1         \* milliseconds that may pass between two events, beyond one
MaxSkew == 0        \* milliseconds that may pass inside one handleSendMessage

Null == 0           \* currentSessionId === null

NewChatTitle == <<"N","e","w"," ","C","h","a","t">>
ErrorPrefix == <<"E","r","r","o","r",":"," ">>
Ellipsis == <<".",".",".">>

\* what the user types: a text, and an image or none
InputCases == {[text |-> <<"P","l","a","n"," ","a"," ","t","r","i","p"," ","t","o"," ","J","a","p","a","n">>,
                image |-> FALSE]}
\* the suggestion buttons of an empty session, line 274
Suggestions == {<<"P","l","a","n"," ","a"," ","t","r","i","p"," ","t","o"," ","J","a","p","a","n">>}
\* the text of the k-th chunk a turn's stream delivers to onChunk
ChunkTexts(k) == IF k % 2 = 1 THEN {<<"a">>} ELSE {<<"b">>}
\* err.message of the errors a stream in flight ends with
StreamErrors == {NetworkMessage}
\* response.text?.trim() of the title request
GeminiTitleTexts == {<<>>, <<"T","r","i","p">>}
\* the settings a start of the App finds saved: the user has entered a key
\* for OpenAI and none for DeepSeek
SAVED_SETTINGS ==
    [DEFAULT_SETTINGS EXCEPT !.apiKeys = [@ EXCEPT !["OpenAI"] = <<"s","k">>]]

\* createNewChat, lines 65-72. renderedTitle is the title in the sessions value
\* of the last committed render, the one the event handlers close over.
NewSession(t) ==
    [id |-> t, title |-> NewChatTitle, renderedTitle |-> NewChatTitle, messages |-> <<>>]

\* lines 92-98 and 111-116
UserMessage(t, text, image) ==
    [id |-> t, role |-> "user", content |-> text, image |-> image, isError |-> FALSE]
Placeholder(id) ==
    [id |-> id, role |-> "model", content |-> <<>>, image |-> FALSE, isError |-> FALSE]

HasSession(ss, sid) == \E i \in 1..Len(ss) : ss[i].id = sid
\* sessions.find(s => s.id === sid)
FindSession(ss, sid) == CHOOSE i \in 1..Len(ss) : ss[i].id = sid /\ \A j \in 1..(i - 1) : ss[j].id # sid
\* sessions.find(s => s.id === currentSessionId)?.messages || []
SessionMessages(ss, sid) == IF HasSession(ss, sid) THEN ss[FindSession(ss, sid)].messages ELSE <<>>

\* newMsgs.find(m => m.id === mid): the position of the first match, 0 for none
FindMessage(msgs, mid) ==
    IF \E j \in 1..Len(msgs) : msgs[j].id = mid
    THEN CHOOSE j \in 1..Len(msgs) : msgs[j].id = mid /\ \A k \in 1..(j - 1) : msgs[k].id # mid
    ELSE 0

\* setSessions(prev => prev.map(s => s.id === sid ? {...s, messages: [...s.messages, msg]} : s))
AppendMessage(prev, sid, msg) ==
    [i \in 1..Len(prev) |->
        IF prev[i].id = sid THEN [prev[i] EXCEPT !.messages = Append(@, msg)] ELSE prev[i]]

\* a chunk written in front of the content
OnChunkUpdater_Prepend(prev, sid, mid, chunk) ==
    [i \in 1..Len(prev) |->
        IF prev[i].id = sid /\ FindMessage(prev[i].messages, mid) # 0
        THEN [prev[i] EXCEPT !.messages[FindMessage(prev[i].messages, mid)].content = chunk \o @]
        ELSE prev[i]]

\* the updater of onChunk, lines 131-139: target.content += chunk
OnChunkUpdater(prev, sid, mid, chunk) ==
    [i \in 1..Len(prev) |->
        IF prev[i].id = sid /\ FindMessage(prev[i].messages, mid) # 0
        THEN [prev[i] EXCEPT !.messages[FindMessage(prev[i].messages, mid)].content = @ \o chunk]
        ELSE prev[i]]

\* the error text added to the streamed text
OnErrorUpdater_Append(prev, sid, mid, msg) ==
    [i \in 1..Len(prev) |->
        IF prev[i].id = sid /\ FindMessage(prev[i].messages, mid) # 0
        THEN [prev[i] EXCEPT
                !.messages[FindMessage(prev[i].messages, mid)].content = @ \o ErrorPrefix \o msg,
                !.messages[FindMessage(prev[i].messages, mid)].isError = TRUE]
        ELSE prev[i]]

\* the updater of onError, lines 151-162
OnErrorUpdater(prev, sid, mid, msg) ==
    [i \in 1..Len(prev) |->
        IF prev[i].id = sid /\ FindMessage(prev[i].messages, mid) # 0
        THEN [prev[i] EXCEPT
                !.messages[FindMessage(prev[i].messages, mid)].content = ErrorPrefix \o msg,
                !.messages[FindMessage(prev[i].messages, mid)].isError = TRUE]
        ELSE prev[i]]

\* the title given to the session that is selected when the title arrives
TitleUpdater_Selected(prev, sid, title) ==
    [i \in 1..Len(prev) |->
        IF prev[i].id = currentSessionId THEN [prev[i] EXCEPT !.title = title] ELSE prev[i]]

\* the title given to the session, which is added when it is not in the list
TitleUpdater_Upsert(prev, sid, title) ==
    IF HasSession(prev, sid)
    THEN [i \in 1..Len(prev) |->
            IF prev[i].id = sid THEN [prev[i] EXCEPT !.title = title] ELSE prev[i]]
    ELSE Append(prev, [NewSession(sid) EXCEPT !.title = title])

\* the updater of line 146: prev.map(s => s.id === sid ? {...s, title} : s)
TitleUpdater(prev, sid, title) ==
    [i \in 1..Len(prev) |->
        IF prev[i].id = sid THEN [prev[i] EXCEPT !.title = title] ELSE prev[i]]

\* words.slice(0, 4).join(' ')
RECURSIVE JoinFirst(_, _)
JoinFirst(words, n) ==
    IF n = 0 \/ words = <<>> THEN <<>>
    ELSE IF n = 1 \/ Len(words) = 1 THEN Head(words)
    ELSE Head(words) \o <<" ">> \o JoinFirst(Tail(words), n - 1)

\* generateTitle for a provider other than Gemini, line 53
HeuristicTitle(text) == JoinFirst(Split(text, " "), 4) \o Ellipsis

\* generateTitle for Gemini, line 49, and line 56 when the request fails
GeminiTitle(responseText) == IF responseText # <<>> THEN responseText ELSE NewChatTitle

\* every turn counts as the first one
IsFirstTurn_Always(contextLength) == TRUE
\* contextMessages.length <= 1, line 144
IsFirstTurn(contextLength) == contextLength <= 1

\* the sessions value the handlers of the last committed render close over:
\* the message objects are shared with the latest state (lines 135 and 156
\* write to them in place), the title is the rendered one
RenderedSessions ==
    [i \in 1..Len(sessions) |-> [sessions[i] EXCEPT !.title = sessions[i].renderedTitle]]

Streaming(t) == turns[t].phase = "streaming"

Init ==
    /\ sessions = <<NewSession(1)>>         \* the load effect, lines 33-34
    /\ currentSessionId = 1
    /\ settings = SAVED_SETTINGS           \* lines 28 and 30
    /\ isLoading = FALSE
    /\ now = 2
    /\ turns = <<>>
    /\ edits = 0
    /\ last = 0
    /\ request = NoRequest
    /\ idleStream

\* React commits a render of the latest state
Render ==
    /\ \E i \in 1..Len(sessions) : sessions[i].renderedTitle # sessions[i].title
    /\ sessions' = [i \in 1..Len(sessions) |->
                        [sessions[i] EXCEPT !.renderedTitle = sessions[i].title]]
    /\ last' = 0
    /\ UNCHANGED <<currentSessionId, settings, isLoading, now, turns, edits>>
    /\ UNCHANGED <<streamVars, request>>

\* the + button, lines 64-76
CreateNewChat ==
    /\ Len(sessions) < MaxSessions
    /\ \E g \in 0..MaxGap :
        LET time == now + g                  \* Date.now()
        IN  /\ time < MaxClock
            /\ sessions' = <<NewSession(time)>> \o sessions
            /\ currentSessionId' = time
            /\ now' = time + 1
    /\ last' = 0
    /\ UNCHANGED <<settings, isLoading, turns, edits>>
    /\ UNCHANGED <<streamVars, request>>

\* a click on a session of the list, lines 198-201
SelectSession(i) ==
    /\ i \in 1..Len(sessions)
    /\ sessions[i].id # currentSessionId
    /\ currentSessionId' = sessions[i].id
    /\ last' = 0
    /\ UNCHANGED <<sessions, settings, isLoading, now, turns, edits>>
    /\ UNCHANGED <<streamVars, request>>

\* no session selected after the selected one was deleted
FirstIdOrNull_Null(ss) == Null
\* newSessions[0]?.id || null, line 83
FirstIdOrNull(ss) == IF ss = <<>> THEN Null ELSE ss[1].id

\* the delete button of a session, lines 78-86
DeleteChat(i) ==
    /\ i \in 1..Len(sessions)
    /\ LET id == sessions[i].id
           KeepOther(s) == s.id # id
           newSessions == SelectSeq(RenderedSessions, KeepOther)
       IN  IF currentSessionId = id /\ newSessions = <<>>
              THEN \E g \in 0..MaxGap :
                   LET time == now + g       \* Date.now() of createNewChat
                   IN  /\ time < MaxClock
                       /\ sessions' = <<NewSession(time)>> \o newSessions
                       /\ currentSessionId' = time
                       /\ now' = time + 1
              ELSE /\ sessions' = newSessions
                   /\ currentSessionId' =
                        IF currentSessionId = id THEN FirstIdOrNull(newSessions)
                        ELSE currentSessionId
                   /\ now' = now
    /\ last' = 0
    /\ UNCHANGED <<settings, isLoading, turns, edits>>
    /\ UNCHANGED <<streamVars, request>>

\* the settings dialog: a provider button
SetActiveModel(m) ==
    /\ m # settings.activeModel
    /\ edits < MaxEdits
    /\ edits' = edits + 1
    /\ settings' = [settings EXCEPT !.activeModel = m]
    /\ last' = 0
    /\ UNCHANGED <<sessions, currentSessionId, isLoading, now, turns>>
    /\ UNCHANGED <<streamVars, request>>

\* an element of the context array: the message object itself, of which the
\* model keeps the fields that never change
MessageRef(m) == [id |-> m.id, role |-> m.role]
MessageRefs(msgs) == [j \in 1..Len(msgs) |-> MessageRef(msgs[j])]

\* streamStandardOpenAI, lines 154-168: the messages of the request body, the
\* system message and then messages.map(m => ({role: m.role, content: ...}));
\* `of` names the message an entry was made from
RestRequestMessages(messages) ==
    <<[role |-> "system", of |-> Null]>>
    \o [j \in 1..Len(messages) |-> [role |-> messages[j].role, of |-> messages[j].id]]

\* the context with the messages the send has appended
ContextMessages_Latest(rendered, sid, userMsg) ==
    MessageRefs(SessionMessages(rendered, sid) \o <<userMsg, Placeholder(userMsg.id + 1)>>)
\* lines 126-127: [...sessionMessages, userMsg], with sessionMessages taken from
\* the sessions value of the render the handler belongs to
ContextMessages(rendered, sid, userMsg) ==
    MessageRefs(SessionMessages(rendered, sid) \o <<userMsg>>)

\* handleSendMessage, lines 88-129, with the part of streamResponse that runs
\* before its first await (lines 65-77): a provider that needs a key and has
\* none reports onError (lines 149-163) inside the same call.
HandleSendMessage(text, image) ==
    /\ currentSessionId # Null
    /\ Len(turns) < MaxTurns
    /\ \E g \in 0..MaxGap, d \in 0..MaxSkew :
        LET sid == currentSessionId
            time == now + g                  \* Date.now() at line 93
            userMsg == UserMessage(time, text, image)
            aiMsgId == (time + d) + 1        \* Date.now() + 1 at line 110
            contextMessages == ContextMessages(RenderedSessions, sid, userMsg)
            contextLength == Len(contextMessages)
            withUser == AppendMessage(sessions, sid, userMsg)
            withBoth == AppendMessage(withUser, sid, Placeholder(aiMsgId))
            m == settings.activeModel
            rejected == ~NeedsNoKey(m) /\ ~KeyAccepted(settings.apiKeys[m])
            turn == [sid |-> sid, aiMsgId |-> aiMsgId, contextLength |-> contextLength,
                     context |-> contextMessages,
                     text |-> text, model |-> m,
                     phase |-> IF rejected THEN "errored" ELSE "streaming",
                     chunks |-> <<>>,
                     err |-> IF rejected THEN MissingKeyMessage(m) ELSE <<>>,
                     titleCalls |-> 0,
                     priorLength |-> Len(SessionMessages(sessions, sid))]
        IN  /\ time + d < MaxClock
            /\ now' = time + d + 1
            /\ sessions' = IF rejected
                           THEN OnErrorUpdater(withBoth, sid, aiMsgId, MissingKeyMessage(m))
                           ELSE withBoth
            /\ isLoading' = ~rejected
            /\ turns' = Append(turns, turn)
            /\ last' = 0
    /\ UNCHANGED <<currentSessionId, settings, edits>>
    /\ UNCHANGED streamVars

\* blank text taken for text
InputRejected_NoTrim(text, image, loading) == (text = <<>> /\ ~image) \/ loading
\* ChatInput.handleSend, part_001 line 136: (!text.trim() && !image) || isLoading
InputRejected(text, image, loading) == (~TrimNonEmpty(text) /\ ~image) \/ loading

\* ChatInput.handleSend, part_001 lines 135-141: the send button or Enter
SendFromInput(in) ==
    /\ ~InputRejected(in.text, in.image, isLoading)
    /\ HandleSendMessage(in.text, in.image)
    /\ UNCHANGED request

\* a suggestion button, lines 266 and 274-282: shown for a session without messages
SendSuggestion(q) ==
    /\ HasSession(sessions, currentSessionId)
    /\ Len(SessionMessages(RenderedSessions, currentSessionId)) = 0
    /\ HandleSendMessage(q, FALSE)
    /\ UNCHANGED request

\* onChunk of turn t, lines 130-140
OnChunk(t, chunk) ==
    /\ t \in 1..Len(turns)
    /\ Streaming(t)
    /\ Len(turns[t].chunks) < MaxChunks
    /\ chunk \in ChunkTexts(Len(turns[t].chunks) + 1)
    /\ sessions' = OnChunkUpdater(sessions, turns[t].sid, turns[t].aiMsgId, chunk)
    /\ turns' = [turns EXCEPT ![t].chunks = Append(@, chunk)]
    /\ last' = IF turns[t].sid # currentSessionId THEN t ELSE 0
    /\ UNCHANGED <<currentSessionId, settings, isLoading, now, edits>>
    /\ UNCHANGED <<streamVars, request>>

\* onComplete of turn t, lines 141-148. generateTitle for Gemini awaits the
\* network; for the other providers it returns at line 53 and the title is
\* set before any other event is handled.
OnComplete(t) ==
    /\ t \in 1..Len(turns)
    /\ Streaming(t)
    /\ isLoading' = FALSE
    /\ IF IsFirstTurn(turns[t].contextLength)
       THEN IF turns[t].model = "Gemini"
            THEN /\ turns' = [turns EXCEPT ![t].phase = "titling", ![t].titleCalls = @ + 1]
                 /\ UNCHANGED sessions
            ELSE /\ turns' = [turns EXCEPT ![t].phase = "completed", ![t].titleCalls = @ + 1]
                 /\ sessions' = TitleUpdater(sessions, turns[t].sid,
                                             HeuristicTitle(turns[t].text))
       ELSE /\ turns' = [turns EXCEPT ![t].phase = "completed"]
            /\ UNCHANGED sessions
    /\ last' = IF turns[t].sid # currentSessionId THEN t ELSE 0
    /\ UNCHANGED <<currentSessionId, settings, now, edits>>
    /\ UNCHANGED <<streamVars, request>>

\* await aiService.generateTitle(...) resolves, lines 145-146
TitleResolved(t, responseText) ==
    /\ t \in 1..Len(turns)
    /\ turns[t].phase = "titling"
    /\ sessions' = TitleUpdater(sessions, turns[t].sid, GeminiTitle(responseText))
    /\ turns' = [turns EXCEPT ![t].phase = "completed"]
    /\ last' = IF turns[t].sid # currentSessionId THEN t ELSE 0
    /\ UNCHANGED <<currentSessionId, settings, isLoading, now, edits>>
    /\ UNCHANGED <<streamVars, request>>

\* onError of turn t, lines 149-163
OnError(t, msg) ==
    /\ t \in 1..Len(turns)
    /\ Streaming(t)
    /\ isLoading' = FALSE
    /\ sessions' = OnErrorUpdater(sessions, turns[t].sid, turns[t].aiMsgId, msg)
    /\ turns' = [turns EXCEPT ![t].phase = "errored", ![t].err = msg]
    /\ last' = IF turns[t].sid # currentSessionId THEN t ELSE 0
    /\ UNCHANGED <<currentSessionId, settings, now, edits>>
    /\ UNCHANGED <<streamVars, request>>

Next ==
    \/ Render
    \/ CreateNewChat
    \/ \E i \in 1..MaxSessions : SelectSession(i)
    \/ \E i \in 1..MaxSessions : DeleteChat(i)
    \/ \E m \in ModelProvider : SetActiveModel(m)
    \/ \E in \in InputCases : SendFromInput(in)
    \/ \E q \in Suggestions : SendSuggestion(q)
    \/ \E t \in 1..MaxTurns, chunk \in ChunkTexts(1) \cup ChunkTexts(2) : OnChunk(t, chunk)
    \/ \E t \in 1..MaxTurns : OnComplete(t)
    \/ \E t \in 1..MaxTurns, r \in GeminiTitleTexts : TitleResolved(t, r)
    \/ \E t \in 1..MaxTurns, msg \in StreamErrors : OnError(t, msg)

Spec == Init /\ [][Next]_vars

----------------------------------------------------------------------------
(* The App from its construction: the load effect, the session list and    *)
(* send requests with every kind of input                                  *)

\* what a send request from the input box may carry: the empty text, blank
\* text, an image without text, a text
InputAttempts ==
    InputCases \cup {[text |-> <<>>, image |-> FALSE],
                     [text |-> <<" ">>, image |-> FALSE],
                     [text |-> <<>>, image |-> TRUE]}

\* localStorage lyra_sessions at the start: nothing saved, or the list a run
\* before this one has saved
SavedSessions == {<<>>, <<NewSession(3), NewSession(2), NewSession(1)>>}
\* localStorage lyra_settings at the start: nothing saved, or saved settings
SavedSettings == {DEFAULT_SETTINGS, SAVED_SETTINGS}

\* the state of the first render, lines 16-19
InitStart ==
    /\ sessions = <<>>
    /\ currentSessionId = Null
    /\ settings = DEFAULT_SETTINGS
    /\ isLoading = FALSE
    /\ now = 4
    /\ turns = <<>>
    /\ edits = 0
    /\ last = 0
    /\ request = NoRequest
    /\ idleStream

\* the load effect has run
Mounted == sessions # <<>> \/ currentSessionId # Null

\* the load effect, lines 26-40
LoadEffect(savedSessions, savedSettings) ==
    /\ ~Mounted
    /\ settings' = savedSettings
    /\ IF savedSessions = <<>>
       THEN \E g \in 0..MaxGap :
            LET time == now + g              \* Date.now() of createNewChat
            IN  /\ time < MaxClock
                /\ sessions' = <<NewSession(time)>>
                /\ currentSessionId' = time
                /\ now' = time + 1
       ELSE /\ sessions' = savedSessions
            /\ currentSessionId' = savedSessions[1].id
            /\ now' = now
    /\ UNCHANGED <<isLoading, turns, edits, last, request>>
    /\ UNCHANGED streamVars

\* Enter or the send button of the input box: ChatInput.handleSend, part_001
\* lines 135-141, and handleSendMessage, which returns at line 89 when no
\* session is selected
RequestFromInput(in) ==
    /\ request' = [path |-> "input", text |-> in.text, image |-> in.image,
                   flip |-> 1 - request.flip]
    /\ IF InputRejected(in.text, in.image, isLoading) \/ currentSessionId = Null
       THEN /\ UNCHANGED <<sessions, currentSessionId, settings, isLoading, now,
                           turns, edits, last>>
            /\ UNCHANGED streamVars
       ELSE HandleSendMessage(in.text, in.image)

\* a click on a suggestion button, lines 274-282
RequestSuggestion(q) ==
    /\ HasSession(sessions, currentSessionId)
    /\ Len(SessionMessages(RenderedSessions, currentSessionId)) = 0
    /\ request' = [path |-> "suggestion", text |-> q, image |-> FALSE,
                   flip |-> 1 - request.flip]
    /\ HandleSendMessage(q, FALSE)

NextStart ==
    \/ \E ss \in SavedSessions, st \in SavedSettings : LoadEffect(ss, st)
    \/ \E in \in InputAttempts : RequestFromInput(in)
    \/ \E q \in Suggestions : RequestSuggestion(q)
    \/ Mounted /\ CreateNewChat
    \/ \E i \in 1..Len(sessions) : SelectSession(i)
    \/ \E i \in 1..Len(sessions) : DeleteChat(i)
    \/ \E t \in 1..MaxTurns : OnComplete(t)
    \/ \E t \in 1..MaxTurns, msg \in StreamErrors : OnError(t, msg)

SpecStart == InitStart /\ [][NextStart]_vars

----------------------------------------------------------------------------
(* Properties of one call of streamResponse, checked under SpecStream *)

IsTerminal(c) == c.cb \in {"onComplete", "onError"}
Terminals == SelectSeq(calls, IsTerminal)
IsChunk(c) == c.cb = "onChunk"
ChunkArgs == [i \in 1..Len(SelectSeq(calls, IsChunk)) |-> SelectSeq(calls, IsChunk)[i].arg]
InCall == spc \notin {"idle", "start"}

\* C1: in every call of streamResponse at most one terminal callback
\* (onComplete or onError) is invoked, nothing is invoked after it, the call
\* has ended exactly when one terminal callback was invoked, and a call that
\* has not ended can always take the transport's next step.
C1_ExactlyOneTerminal ==
    /\ Len(Terminals) <= 1
    /\ \A i \in 1..Len(calls) : IsTerminal(calls[i]) => i = Len(calls)
    /\ (spc = "done") <=> (Len(Terminals) = 1)
    /\ (spc \notin {"idle", "done"}) => ENABLED NextStream

\* a REST call that delivered a chunk and then failed in a later read
C1_Witness ==
    /\ spc = "done" /\ adapter = "rest"
    /\ Len(calls) >= 2
    /\ calls[1].cb = "onChunk"
    /\ calls[Len(calls)].cb = "onError"

\* C2: a REST call over a body of well-formed frames (with delta texts that do
\* not quote the end marker) followed by data: [DONE] that ends in onComplete
\* has passed to onChunk texts that concatenate to c1+..+cn and passes c1+..+cn
\* to onComplete, however the body was cut into reads.
C2_SplitFrameRobust ==
    (spc = "done" /\ adapter = "rest" /\ withDone /\ calls # <<>>
        /\ calls[Len(calls)].cb = "onComplete"
        /\ \A i \in 1..Len(deltas) :
              deltas[i] \in Deltas /\ ~Includes(deltas[i], DoneMarker))
    => /\ Concat(ChunkArgs) = Concat(deltas)
       /\ calls[Len(calls)].arg = Concat(deltas)

\* C6: with OpenAI or DeepSeek active and its key absent or empty the call
\* invokes onError only and issues no network request; with Gemini active
\* the adapter is invoked whatever settings.apiKeys holds.
C6_MissingKey ==
    LET m == settings.activeModel
    IN  /\ (InCall /\ m \in {"OpenAI", "DeepSeek"} /\ Falsy(settings.apiKeys[m]))
              => /\ spc = "done"
                 /\ calls = <<OnErrorCall(MissingKeyMessage(m))>>
                 /\ netReq = 0
                 /\ adapter = "none"
        /\ (InCall /\ m = "Gemini")
              => /\ adapter = "gemini"
                 /\ \A i \in 1..Len(calls) : calls[i] # OnErrorCall(MissingKeyMessage(m))

\* a call with DeepSeek active and the empty string as its key has ended
C6_Witness ==
    /\ spc = "done"
    /\ settings.activeModel = "DeepSeek"
    /\ settings.apiKeys["DeepSeek"] = <<>>

\* the part of the body one read has consumed, as the lines the adapter sees
LinesRead == ChunkLines(SubSeq(wire, 1, Len(wire) - Len(wire')))
\* the callbacks a step has added
CallsAdded == SubSeq(calls', Len(calls) + 1, Len(calls'))
\* the first read delivers the whole body
WholeBodyRead ==
    spc = "rest_read" /\ wire = Body(deltas, withDone) /\ wire # <<>> /\ wire' = <<>>
AllWellFormed == \A i \in 1..Len(deltas) : deltas[i] \in Deltas

\* C12: whenever a call has ended in onComplete(fullText), fullText is the
\* concatenation, in order, of the texts passed to onChunk, and no empty text
\* was passed to onChunk; a REST body of the one frame "Hi" and the end marker,
\* delivered in one read, yields the chunk "Hi" and then onComplete("Hi").
C12_FullTextIsConcat ==
    /\ [](/\ \A i \in 1..Len(calls) : IsChunk(calls[i]) => calls[i].arg # <<>>
          /\ (calls # <<>> /\ calls[Len(calls)].cb = "onComplete")
                => calls[Len(calls)].arg = Concat(ChunkArgs))
    /\ [][(WholeBodyRead /\ deltas = << <<"H","i">> >> /\ withDone)
            => /\ calls' = <<OnChunkCall(<<"H","i">>), OnCompleteCall(<<"H","i">>)>>
               /\ spc' = "done"
         ]_vars

\* two frames were forwarded and the call completed with both texts
C12_Witness ==
    /\ spc = "done" /\ adapter = "rest"
    /\ deltas = << <<"H","i">>, <<"a">> >>
    /\ calls = <<OnChunkCall(<<"H","i">>), OnChunkCall(<<"a">>),
                 OnCompleteCall(<<"H","i","a">>)>>

\* C13: of a body of well-formed frames that arrives in one read every delta
\* text is forwarded as a chunk, whatever characters it contains, and the
\* call ends in that read only when the body carries the end marker line.
C13_OnlyMarkerEnds ==
    [][(WholeBodyRead /\ AllWellFormed)
         => /\ ChunkArgs' = deltas
            /\ (spc' = "done") <=> withDone
      ]_vars

\* the lines of a read up to the first one the adapter takes for the end marker
BeforeMarker(lines) ==
    IF \E i \in 1..Len(lines) : Includes(lines[i], DoneMarker)
    THEN SubSeq(lines, 1,
                (CHOOSE i \in 1..Len(lines) :
                    /\ Includes(lines[i], DoneMarker)
                    /\ \A j \in 1..(i - 1) : ~Includes(lines[j], DoneMarker)) - 1)
    ELSE lines
IsDataLine(line) == StartsWith(line, DataPrefix)
\* the delta text each line carries, <<>> for a line that carries none
DeltaTexts(lines) ==
    [i \in 1..Len(lines) |->
        IF IsDataLine(lines[i]) THEN DeltaContent(Slice(lines[i], 6)) ELSE <<>>]
NonEmpty(text) == text # <<>>
ArgsOf(cs) == [i \in 1..Len(cs) |-> cs[i].arg]
\* the callbacks `added` are what the lines `before`, which stand in front of
\* the end marker or are all `n` lines of the read, must produce
SkipsOnlyBadLines(before, n, added, pcAfter) ==
    /\ ArgsOf(SelectSeq(added, IsChunk)) = SelectSeq(DeltaTexts(before), NonEmpty)
    /\ \A i \in 1..Len(added) : added[i].cb # "onError"
    /\ Len(SelectSeq(added, IsTerminal)) = (IF Len(before) < n THEN 1 ELSE 0)
    /\ pcAfter = (IF Len(before) < n THEN "done" ELSE "rest_read")
ReadSkipsOnlyBadLines(lines, added, pcAfter) ==
    SkipsOnlyBadLines(BeforeMarker(lines), Len(lines), added, pcAfter)

\* C14: in every read the lines in front of the end marker that carry a delta
\* text are forwarded as chunks, all of them and in order, whatever undecodable
\* data: lines stand between them; such a line invokes no callback, and the
\* read loop goes on unless the read held the end marker.
C14_MalformedLineSkipped ==
    [][(spc = "rest_read" /\ wire' # wire)
         => ReadSkipsOnlyBadLines(LinesRead, CallsAdded, spc')
      ]_vars

\* a body whose first line is JSON that breaks off: the frame behind it was
\* forwarded and the call completed
C14_Witness ==
    /\ spc = "done" /\ adapter = "rest" /\ withDone
    /\ Len(deltas) = 2
    /\ deltas[1] = <<"{","\"","c","h","o">>
    /\ deltas[2] = <<"H","i">>
    /\ calls = <<OnChunkCall(<<"H","i">>), OnCompleteCall(<<"H","i">>)>>

----------------------------------------------------------------------------
(* Properties of the App, checked under Spec *)

TurnIds == 1..Len(turns)
\* a callback of turn t acts in this step
CallbackStep(t) == Len(turns') = Len(turns) /\ turns'[t] # turns[t]
\* the position of turn t's placeholder in its session: behind the messages
\* the session had and the turn's user message
PlaceholderPos(t) == turns[t].priorLength + 2
PlaceholderOf(t) == SessionMessages(sessions, turns[t].sid)[PlaceholderPos(t)]

\* C3: while a turn's session exists and the turn has not failed, its
\* placeholder holds exactly the chunks delivered so far, in the order of delivery.
C3_ChunksInOrder ==
    \A t \in TurnIds :
        (HasSession(sessions, turns[t].sid) /\ turns[t].phase # "errored")
        => /\ PlaceholderOf(t).id = turns[t].aiMsgId
           /\ PlaceholderOf(t).role = "model"
           /\ PlaceholderOf(t).content = Concat(turns[t].chunks)

\* a turn completed with two chunks while another turn's chunks were delivered
C3_Witness ==
    \E t, u \in TurnIds :
        /\ t # u
        /\ turns[t].phase = "completed" /\ Len(turns[t].chunks) >= 2
        /\ HasSession(sessions, turns[t].sid)
        /\ PlaceholderOf(t).content = <<"a", "b">>
        /\ turns[u].chunks # <<>>

\* C4: a step of a turn's callbacks, and the send itself, changes no session
\* other than the one that was selected when the turn was sent.
C4_SessionIsolation ==
    [][/\ \A t \in TurnIds :
            CallbackStep(t) =>
                /\ Len(sessions') = Len(sessions)
                /\ \A i \in 1..Len(sessions) :
                      sessions[i].id # turns[t].sid => sessions'[i] = sessions[i]
       /\ Len(turns') = Len(turns) + 1 =>
                /\ Len(sessions') = Len(sessions)
                /\ \A i \in 1..Len(sessions) :
                      sessions[i].id # turns'[Len(turns')].sid => sessions'[i] = sessions[i]
      ]_vars

\* a callback of a streaming turn has written a chunk into its session while
\* another session was selected
C4_Witness ==
    /\ last # 0
    /\ HasSession(sessions, turns[last].sid)
    /\ turns[last].sid # currentSessionId
    /\ turns[last].phase = "streaming"
    /\ PlaceholderOf(last).content # <<>>

\* C5: once the session of a turn is gone from the list it stays gone, and
\* every callback of that turn leaves the session list as it is.
C5_NoResurrection ==
    [][\A t \in TurnIds :
          ~HasSession(sessions, turns[t].sid) =>
              /\ ~HasSession(sessions', turns[t].sid)
              /\ CallbackStep(t) => sessions' = sessions
      ]_vars

\* the title request of a Gemini turn resolved after the turn's session was deleted
C5_Witness ==
    /\ last # 0
    /\ ~HasSession(sessions, turns[last].sid)
    /\ turns[last].model = "Gemini"
    /\ turns[last].phase = "completed"
    /\ turns[last].titleCalls = 1
    /\ turns[last].chunks # <<>>

\* C7: generateTitle has been invoked once for a turn sent into a session
\* without messages that reached onComplete, and not at all for any other turn.
C7_TitleOnce ==
    \A t \in TurnIds :
        turns[t].titleCalls =
            IF turns[t].priorLength = 0 /\ turns[t].phase \in {"titling", "completed"}
            THEN 1 ELSE 0

\* a first turn completed with its title requested, a later turn of the same
\* session completed without
C7_Witness ==
    \E t, u \in TurnIds :
        /\ turns[t].sid = turns[u].sid
        /\ turns[t].priorLength = 0 /\ turns[t].phase = "completed"
        /\ turns[t].titleCalls = 1
        /\ turns[u].priorLength > 0 /\ turns[u].phase = "completed"
        /\ turns[u].titleCalls = 0

\* C8: at most one turn is streaming at any time.
C8_SingleFlight ==
    Cardinality({t \in TurnIds : Streaming(t)}) <= 1

\* C9: no session of the list holds the placeholders of two streaming turns.
C9_OneInFlightPerSession ==
    \A t, u \in TurnIds :
        (t # u /\ Streaming(t) /\ Streaming(u) /\ HasSession(sessions, turns[t].sid))
        => turns[t].sid # turns[u].sid

\* C10: the placeholder of a failed turn whose session exists is in its place
\* with the error description as content and the error flag set, and the onError
\* step changes nothing else in the session: same messages, same order.
C10_ErrorInPlace ==
    /\ [](\A t \in TurnIds :
            (turns[t].phase = "errored" /\ HasSession(sessions, turns[t].sid))
            => /\ PlaceholderOf(t).id = turns[t].aiMsgId
               /\ PlaceholderOf(t).role = "model"
               /\ PlaceholderOf(t).content = ErrorPrefix \o turns[t].err
               /\ PlaceholderOf(t).isError)
    /\ [][\A t \in TurnIds :
            (CallbackStep(t) /\ turns'[t].phase = "errored"
                /\ HasSession(sessions, turns[t].sid))
            => LET i == FindSession(sessions, turns[t].sid)
                   old == sessions[i].messages
                   new == sessions'[i].messages
               IN  /\ Len(sessions') = Len(sessions)
                   /\ sessions'[i].id = sessions[i].id
                   /\ sessions'[i].title = sessions[i].title
                   /\ Len(new) = Len(old)
                   /\ \A j \in 1..Len(old) : j # PlaceholderPos(t) => new[j] = old[j]
                   /\ new[PlaceholderPos(t)] =
                        [old[PlaceholderPos(t)] EXCEPT
                            !.content = ErrorPrefix \o turns'[t].err, !.isError = TRUE]
         ]_vars

\* a turn of a session with earlier messages failed after a chunk was streamed
C10_Witness ==
    \E t \in TurnIds :
        /\ turns[t].phase = "errored"
        /\ turns[t].chunks # <<>>
        /\ turns[t].priorLength >= 2
        /\ HasSession(sessions, turns[t].sid)

\* C15: the context a send passes to streamResponse is the message sequence
\* its session had before the send, followed by the send's user message, and
\* does not contain the placeholder of the send.
C15_ContextIsPriorPlusUser ==
    [][Len(turns') = Len(turns) + 1
         => LET t == turns'[Len(turns')]
                prior == SessionMessages(sessions, t.sid)
                after == SessionMessages(sessions', t.sid)
            IN  /\ Len(after) = Len(prior) + 2
                /\ after[Len(prior) + 1].role = "user"
                /\ after[Len(prior) + 1].content = t.text
                /\ after[Len(prior) + 2].id = t.aiMsgId
                /\ t.context = MessageRefs(prior \o <<after[Len(prior) + 1]>>)
                /\ \A j \in 1..Len(t.context) :
                      /\ t.context[j] # MessageRef(after[Len(prior) + 2])
                      /\ t.context[j].id # t.aiMsgId
      ]_vars

\* a send into a session that holds a reply: the context is the earlier user
\* message, the reply and the new user message
C15_Witness ==
    \E t \in TurnIds :
        /\ Len(turns[t].context) = 3
        /\ turns[t].context[1].role = "user"
        /\ turns[t].context[2].role = "model"
        /\ turns[t].context[3].role = "user"
        /\ turns[t].context[3].id = turns[t].aiMsgId - 1

\* turn t has called the REST adapter: a provider other than Gemini, with a key
UsesRest(t) ==
    /\ turns[t].model # "Gemini"
    /\ turns[t].err # MissingKeyMessage(turns[t].model)

\* C16: the messages of a REST request are the system message and then one
\* entry per message of the context, in order, each with role user or assistant.
C16_RestRoles ==
    \A t \in TurnIds :
        UsesRest(t) =>
            LET body == RestRequestMessages(turns[t].context)
            IN  /\ Len(body) = Len(turns[t].context) + 1
                /\ body[1].role = "system"
                /\ \A j \in 1..Len(turns[t].context) :
                      /\ body[j + 1].of = turns[t].context[j].id
                      /\ body[j + 1].role \in {"user", "assistant"}

\* C17: the messages of a session have pairwise distinct ids.
C17_MessageIdsDistinct ==
    \A i \in 1..Len(sessions) :
        \A j, k \in 1..Len(sessions[i].messages) :
            j # k => sessions[i].messages[j].id # sessions[i].messages[k].id

\* C18: a step that removes a session from the list removes that session
\* only, and every other session is after the step what it was in the latest
\* state before it: same messages, same title.
C18_DeleteKeepsLatest ==
    [][\A i \in 1..Len(sessions) :
          ~HasSession(sessions', sessions[i].id) =>
              \A j \in 1..Len(sessions) :
                  j # i =>
                      /\ HasSession(sessions', sessions[j].id)
                      /\ sessions'[FindSession(sessions', sessions[j].id)].messages
                            = sessions[j].messages
                      /\ sessions'[FindSession(sessions', sessions[j].id)].title
                            = sessions[j].title
      ]_vars

----------------------------------------------------------------------------
(* Properties of the App from its construction, checked under SpecStart *)

\* C11: a send request made while no session is selected, or with empty or
\* blank text and no image, changes nothing: no message is appended, the
\* awaiting-response flag keeps its value and no turn (call of streamResponse)
\* is started, whichever way the request reaches handleSendMessage.
C11_RejectedSendChangesNothing ==
    [][(request' # request
          /\ (currentSessionId = Null
                \/ (~TrimNonEmpty(request'.text) /\ ~request'.image)))
       => UNCHANGED <<sessions, isLoading, turns, currentSessionId, settings, now>>
      ]_vars

\* a blank text without image was requested from the enabled input box of a
\* session that holds a finished turn
C11_Witness ==
    /\ request.path = "input"
    /\ request.text = <<" ">> /\ ~request.image
    /\ ~isLoading
    /\ turns # <<>>
    /\ HasSession(sessions, currentSessionId)
    /\ Len(SessionMessages(sessions, currentSessionId)) = 2
\* the sessions of the list other than the one with this id, in order
Remaining(id) ==
    LET Other(s) == s.id # id IN SelectSeq(sessions, Other)

\* C19: every step that changes the session list or the selection leaves a
\* list that is not empty with a selected session that is in it; a step that
\* deletes the selected session selects the first remaining one, or creates
\* and selects a new empty session when none remains, and a step that deletes
\* another session keeps the selection.
C19_SelectionValid ==
    /\ [](sessions # <<>> => HasSession(sessions, currentSessionId))
    /\ [][(sessions' # sessions \/ currentSessionId' # currentSessionId)
            => /\ sessions' # <<>>
               /\ HasSession(sessions', currentSessionId')
               /\ \A i \in 1..Len(sessions) :
                     ~HasSession(sessions', sessions[i].id) =>
                        IF currentSessionId # sessions[i].id
                        THEN currentSessionId' = currentSessionId
                        ELSE IF Remaining(sessions[i].id) # <<>>
                        THEN currentSessionId' = Remaining(sessions[i].id)[1].id
                        ELSE /\ Len(sessions') = 1
                             /\ sessions'[1].messages = <<>>
                             /\ sessions'[1].id >= now
                             /\ currentSessionId' = sessions'[1].id
         ]_vars

\* every session that held a turn was deleted; the list is one empty session,
\* created after the last send and selected
C19_Witness ==
    /\ turns # <<>>
    /\ \A t \in TurnIds : ~HasSession(sessions, turns[t].sid)
    /\ Len(sessions) = 1
    /\ sessions[1].messages = <<>>
    /\ sessions[1].id >= turns[Len(turns)].aiMsgId
    /\ currentSessionId = sessions[1].id

====
